---- MODULE Spec2Model ----
(***************************************************************************)
(* The two one-shot repair scripts of the repository,                      *)
(*   src/fix_comparison_tests.py      ("comparison")                       *)
(*   src/scripts/fix_cache_stats.py   ("cache_stats")                      *)
(* Each reads one hardcoded file, applies three re.sub passes in a fixed   *)
(* order, writes the result back to the same path and prints a message.    *)
(*                                                                         *)
(* A document is a sequence of tokens.  A token is a piece of text that    *)
(* the patterns of the scripts can only consume whole: single characters   *)
(* ("{", "}", ",", ";", "\n", digits, ...) and the fixed words of the      *)
(* patterns ("cacheMisses: ", "const ", ...).  No token of Alphabet is a   *)
(* proper part of a pattern word and no pattern word can be formed across  *)
(* a token boundary, so on these documents a character-level match of a    *)
(* pattern always starts and ends on a token boundary.                     *)
(***************************************************************************)
EXTENDS Integers, Sequences, FiniteSets, TLC

VARIABLES
    procs,      \* the script processes of this execution
    script,     \* script[p]: which of the two scripts process p runs
    pc,         \* pc[p]: the statement process p executes next
    content,    \* content[p]: the script's variable `content`
    open,       \* open[p]: the modes ("r", "w") of the file objects p holds open
    file,       \* the text stored at the hardcoded path
    printed,    \* printed[p]: what p has printed
    run,        \* run[p]: 1 for the first execution of the script, 2 for a re-execution
    log,        \* log[p]: the statements p has executed, in order
    prev,       \* prev[p]: `content` as it was before the last re.sub
    readval,    \* readval[p]: what f.read() returned
    orig,       \* the text at the path when the execution began
    overlap     \* whether a process has taken a step while another was running

vars == <<procs, script, pc, content, open, file, printed, run, log,
          prev, readval, orig, overlap>>

----------------------------------------------------------------------------
(* Bounds *)

\* longest input document, in fragments, of the single-process executions
MaxFrags == 3
\* longest input document, in fragments, of the executions with I/O failures
MaxIOFrags == 2
\* longest input document, in fragments, of the concurrent executions
MaxConcFrags == 3

----------------------------------------------------------------------------
(* Character classes of the patterns *)

NL == "\n"
Indent6 == "      "

\* \s
Space == {" ", NL, Indent6}
\* \d
Digit == {"0", "1", "2", "5"}
\* [0-9.]
NumChar == Digit \cup {"."}
\* \w  (the one-character word tokens)
Word == Digit \cup {"s", "t", "a", "b", "value"}

\* the ten field lines and the closing indentation of complete_cache_stats
CanonBody ==
    << "\n        hitRatio: 0.7,", "\n        size: 50,", "\n        maxSize: 100,",
       "\n        hits: 70,", "\n        misses: 30,", "\n        sets: 50,",
       "\n        evictions: 5,", "\n        hitRate: 0.7,",
       "\n        averageAccessTime: 0.002,", "\n        efficiency: 0.75", "\n      " >>

Range(s) == { s[i] : i \in 1..Len(s) }

Alphabet ==
    Space \cup Word \cup NumChar \cup Range(CanonBody) \cup
    { "{", "}", ",", ";", "a", "b", "value", "hits: 1",
      "cacheMisses: ", "unitBreakdown: ", "const ", ": CacheStats ", "= ", "frequency: " }

\* [^}]
NotRBrace == Alphabet \ {"}"}

----------------------------------------------------------------------------
(* The regular-expression engine: re.sub with a backtracking matcher *)

One(c)  == [q |-> "one",  cls |-> c]
Plus(c) == [q |-> "plus", cls |-> c]
Star(c) == [q |-> "star", cls |-> c]
Opt(c)  == [q |-> "opt",  cls |-> c]
Lit(t)  == One({t})

NoMatch == [ok |-> FALSE, ends |-> <<>>]

RECURSIVE RunLen(_, _, _)
\* the number of consecutive tokens of class c in s from position i on
RunLen(c, s, i) ==
    IF i > Len(s) \/ s[i] \notin c THEN 0 ELSE 1 + RunLen(c, s, i + 1)

RECURSIVE MatchFrom(_, _, _, _)
RECURSIVE TryCount(_, _, _, _, _, _)
\* The items pat[k], pat[k+1], ... matched against s from position i on.
\* ends[j] is the position of the last token the j-th of them consumed.
\* A quantified item is greedy: it first takes all it can and gives tokens
\* back one at a time until the rest of the pattern matches.
MatchFrom(pat, k, s, i) ==
    IF k > Len(pat) THEN [ok |-> TRUE, ends |-> <<>>]
    ELSE LET avail == RunLen(pat[k].cls, s, i)
             most  == IF pat[k].q \in {"one", "opt"} /\ avail > 1 THEN 1 ELSE avail
             least == IF pat[k].q \in {"one", "plus"} THEN 1 ELSE 0
         IN  TryCount(pat, k, s, i, most, least)

TryCount(pat, k, s, i, n, least) ==
    IF n < least THEN NoMatch
    ELSE LET rest == MatchFrom(pat, k + 1, s, i + n)
         IN  IF rest.ok THEN [ok |-> TRUE, ends |-> <<i + n - 1>> \o rest.ends]
             ELSE TryCount(pat, k, s, i, n - 1, least)

\* s[a..b]
Slice(s, a, b) == SubSeq(s, a, b)

----------------------------------------------------------------------------
(* The rules of fix_comparison_tests.py *)

\* r'(cacheMisses: \d+,)\s*\n\s*cacheMisses: \d+,'
CacheMissesPattern ==
    << Lit("cacheMisses: "), Plus(Digit), Lit(","),
       Star(Space), Lit(NL), Star(Space),
       Lit("cacheMisses: "), Plus(Digit), Lit(",") >>

\* r'(unitBreakdown: \{[^}]+\}),?\s*\n\s*unitBreakdown: \{[^}]+\}'
UnitBreakdownPattern ==
    << Lit("unitBreakdown: "), Lit("{"), Plus(NotRBrace), Lit("}"),
       Opt({","}), Star(Space), Lit(NL), Star(Space),
       Lit("unitBreakdown: "), Lit("{"), Plus(NotRBrace), Lit("}") >>

\* a pattern that takes any comma before a closing brace
TrailingPatternAnyComma == << Lit(","), Star(Space), Lit("}") >>

\* r'},\s*}'
TrailingPattern == << Lit("}"), Lit(","), Star(Space), Lit("}") >>

----------------------------------------------------------------------------
(* The rules of fix_cache_stats.py *)

complete_cache_stats == <<"{">> \o CanonBody \o <<"}">>

\* r'const \w+: CacheStats = \{[^}]+\};'
ConstPattern ==
    << Lit("const "), Plus(Word), Lit(": CacheStats "), Lit("= "),
       Lit("{"), Plus(NotRBrace), Lit("}"), Lit(";") >>

\* r'(\w+: CacheStats = )\{[^}]+\}'
InlinePattern ==
    << Plus(Word), Lit(": CacheStats "), Lit("= "),
       Lit("{"), Plus(NotRBrace), Lit("}") >>

\* r'frequency: [0-9.]+,\s*\n'
FrequencyPattern ==
    << Lit("frequency: "), Plus(NumChar), Lit(","), Star(Space), Lit(NL) >>

\* the tokens that hold the character '='
HasEq == {"= "}

\* a replacement function that forgets the split and keeps the whole match
SplitEqKeepsAll(m) == m

RECURSIVE SplitEq0(_)
\* m.group(0).split('=')[0]: the text of m before its first '='
SplitEq0(m) ==
    IF m = <<>> \/ Head(m) \in HasEq THEN <<>> ELSE <<Head(m)>> \o SplitEq0(Tail(m))

----------------------------------------------------------------------------
(* re.sub *)

Pattern(rule) ==
    CASE rule = "cacheMisses"   -> CacheMissesPattern
      [] rule = "unitBreakdown" -> UnitBreakdownPattern
      [] rule = "trailing"      -> TrailingPattern
      [] rule = "const"         -> ConstPattern
      [] rule = "inline"        -> InlinePattern
      [] rule = "frequency"     -> FrequencyPattern

\* what replaces the match of `rule` that starts at s[i] and whose items end at ends
Replacement(rule, s, i, ends) ==
    CASE rule = "cacheMisses"   -> Slice(s, i, ends[3])                  \* r'\1'
      [] rule = "unitBreakdown" -> Slice(s, i, ends[4])                  \* r'\1'
      [] rule = "trailing"      -> <<"}", NL, Indent6, "}">>             \* '}\n      }'
      [] rule = "const"         ->
             SplitEq0(Slice(s, i, ends[Len(ends)])) \o <<"= ">> \o complete_cache_stats \o <<";">>
      [] rule = "inline"        -> Slice(s, i, ends[3]) \o complete_cache_stats
      [] rule = "frequency"     -> <<>>                                  \* ''

RECURSIVE SubFrom(_, _, _)
\* re.sub from position i on: the leftmost match is replaced and the scan
\* goes on after it; a token no match starts at is copied.
SubFrom(rule, s, i) ==
    IF i > Len(s) THEN <<>>
    ELSE LET m == MatchFrom(Pattern(rule), 1, s, i)
         IN  IF m.ok
             THEN Replacement(rule, s, i, m.ends) \o SubFrom(rule, s, m.ends[Len(m.ends)] + 1)
             ELSE <<s[i]>> \o SubFrom(rule, s, i + 1)

\* a scan that starts one token late
SubSkipsFirst(rule, s) == SubFrom(rule, s, 2)

Sub(rule, s) == SubFrom(rule, s, 1)

\* the rules of each script, in the order the script applies them
Rules(sc) ==
    IF sc = "comparison" THEN <<"cacheMisses", "unitBreakdown", "trailing">>
    ELSE <<"const", "inline", "frequency">>

Scripts == {"comparison", "cache_stats"}

\* the three passes of script sc on document s
Patch(sc, s) == Sub(Rules(sc)[3], Sub(Rules(sc)[2], Sub(Rules(sc)[1], s)))

Message(sc) ==
    IF sc = "comparison" THEN "Fixed duplicate properties in comparison optimizer test file"
    ELSE "Fixed CacheStats objects and removed frequency properties"

----------------------------------------------------------------------------
(* Input documents *)

CM1 == <<"cacheMisses: ", "1", ",", NL>>
CM2 == <<"cacheMisses: ", "2", ",", NL>>
UBa == <<"unitBreakdown: ", "{", "a", "}", ",", NL>>
UBb == <<"unitBreakdown: ", "{", "b", "}", NL>>

FragsComparison ==
    { CM1, CM2, UBa, UBb, <<NL>>, <<" ">>, <<",">>, <<",", NL>>, <<"}">>, <<"value">> }

ConstHdr  == <<"const ", "s", ": CacheStats ", "= ", "{">>
InlineHdr == <<"t", ": CacheStats ", "= ", "{">>
Field1    == <<" ", "hits: 1", " ">>
FreqLine  == <<"frequency: ", "0", ".", "5", ",", NL>>

FragsCacheStats ==
    { ConstHdr, InlineHdr, Field1, <<"}">>, <<"}", ";">>, FreqLine, <<" ">>, <<NL>> }

\* a file both scripts change
FragsBoth == { CM1, CM2, FreqLine }

Frags(sc) == IF sc = "comparison" THEN FragsComparison ELSE FragsCacheStats

RECURSIVE Docs(_, _)
\* the documents made of at most n of the fragments fs
Docs(fs, n) ==
    IF n = 0 THEN { <<>> }
    ELSE LET shorter == Docs(fs, n - 1)
         IN  shorter \cup { d \o fr : d \in shorter, fr \in fs }

\* the beginnings of s, s itself included
Prefixes(s) == { SubSeq(s, 1, n) : n \in 0..Len(s) }

----------------------------------------------------------------------------
(* The scripts, statement by statement *)

Start(ps) ==
    /\ procs = ps
    /\ pc = [p \in ps |-> "open_r"]
    /\ content = [p \in ps |-> <<>>]
    /\ open = [p \in ps |-> {}]
    /\ printed = [p \in ps |-> <<>>]
    /\ run = [p \in ps |-> 1]
    /\ log = [p \in ps |-> <<>>]
    /\ prev = [p \in ps |-> <<>>]
    /\ readval = [p \in ps |-> <<>>]
    /\ orig = file
    /\ overlap = FALSE

\* one script, run on a file of its kind
Init ==
    /\ script \in [{1} -> Scripts]
    /\ file \in Docs(Frags(script[1]), MaxFrags)
    /\ Start({1})

Running(q) == pc[q] \notin {"open_r", "done", "failed"}

\* p executes statement op
Record(p, op) ==
    /\ log' = [log EXCEPT ![p] = Append(@, op)]
    /\ overlap' = (overlap \/ \E q \in procs \ {p} : Running(q))

\* with open(path, 'r') as f:
OpenRead(p) ==
    /\ pc[p] = "open_r"
    /\ open' = [open EXCEPT ![p] = @ \cup {"r"}]
    /\ pc' = [pc EXCEPT ![p] = "read"]
    /\ Record(p, "open_r")
    /\ UNCHANGED <<procs, script, content, file, printed, run, prev, readval, orig>>

\* content = f.read()
Read(p) ==
    /\ pc[p] = "read"
    /\ content' = [content EXCEPT ![p] = file]
    /\ readval' = [readval EXCEPT ![p] = file]
    /\ pc' = [pc EXCEPT ![p] = "close_r"]
    /\ Record(p, "read")
    /\ UNCHANGED <<procs, script, open, file, printed, run, prev, orig>>

\* a read handle that is never closed (open() without the with block)
CloseReadLeavesOpen(p) ==
    /\ pc[p] = "close_r"
    /\ pc' = [pc EXCEPT ![p] = "rule1"]
    /\ Record(p, "close_r")
    /\ UNCHANGED <<procs, script, content, open, file, printed, run, prev, readval, orig>>

\* the end of the with block: f is closed
CloseRead(p) ==
    /\ pc[p] = "close_r"
    /\ open' = [open EXCEPT ![p] = @ \ {"r"}]
    /\ pc' = [pc EXCEPT ![p] = "rule1"]
    /\ Record(p, "close_r")
    /\ UNCHANGED <<procs, script, content, file, printed, run, prev, readval, orig>>

\* content = re.sub(<k-th pattern>, <k-th replacement>, content)
ApplyRule(p, k) ==
    /\ content' = [content EXCEPT ![p] = Sub(Rules(script[p])[k], content[p])]
    /\ prev' = [prev EXCEPT ![p] = content[p]]
    /\ Record(p, Rules(script[p])[k])
    /\ UNCHANGED <<procs, script, open, file, printed, run, readval, orig>>

Rule1(p) ==
    /\ pc[p] = "rule1"
    /\ ApplyRule(p, 1)
    /\ pc' = [pc EXCEPT ![p] = "rule2"]

Rule2(p) ==
    /\ pc[p] = "rule2"
    /\ ApplyRule(p, 2)
    /\ pc' = [pc EXCEPT ![p] = "rule3"]

Rule3(p) ==
    /\ pc[p] = "rule3"
    /\ ApplyRule(p, 3)
    /\ pc' = [pc EXCEPT ![p] = "open_w"]

\* with open(path, 'w') as f:   (mode 'w' truncates the file)
OpenWrite(p) ==
    /\ pc[p] = "open_w"
    /\ open' = [open EXCEPT ![p] = @ \cup {"w"}]
    /\ file' = <<>>
    /\ pc' = [pc EXCEPT ![p] = "write"]
    /\ Record(p, "open_w")
    /\ UNCHANGED <<procs, script, content, printed, run, prev, readval, orig>>

\* a write of the text that was read instead of the rewritten text
WriteWhatWasRead(p) ==
    /\ pc[p] = "write"
    /\ file' = readval[p]
    /\ pc' = [pc EXCEPT ![p] = "close_w"]
    /\ Record(p, "write")
    /\ UNCHANGED <<procs, script, content, open, printed, run, prev, readval, orig>>

\* f.write(content)   (the text is taken to reach the file here; Python may
\* hold it in its buffer until the handle is closed)
Write(p) ==
    /\ pc[p] = "write"
    /\ file' = content[p]
    /\ pc' = [pc EXCEPT ![p] = "close_w"]
    /\ Record(p, "write")
    /\ UNCHANGED <<procs, script, content, open, printed, run, prev, readval, orig>>

\* the end of the with block: f is closed
CloseWrite(p) ==
    /\ pc[p] = "close_w"
    /\ open' = [open EXCEPT ![p] = @ \ {"w"}]
    /\ pc' = [pc EXCEPT ![p] = "print"]
    /\ Record(p, "close_w")
    /\ UNCHANGED <<procs, script, content, file, printed, run, prev, readval, orig>>

\* print('Fixed ...')
PrintDone(p) ==
    /\ pc[p] = "print"
    /\ printed' = [printed EXCEPT ![p] = Append(@, Message(script[p]))]
    /\ pc' = [pc EXCEPT ![p] = "done"]
    /\ Record(p, "print")
    /\ UNCHANGED <<procs, script, content, open, file, run, prev, readval, orig>>

\* the statements of the script; each is enabled at its own place only
Run(p) ==
    \/ OpenRead(p) \/ Read(p) \/ CloseRead(p)
    \/ Rule1(p) \/ Rule2(p) \/ Rule3(p)
    \/ OpenWrite(p) \/ Write(p) \/ CloseWrite(p)
    \/ PrintDone(p)

\* the script is executed once more, on the file it has produced
Rerun(p) ==
    /\ pc[p] = "done"
    /\ run[p] = 1
    /\ run' = [run EXCEPT ![p] = 2]
    /\ pc' = [pc EXCEPT ![p] = "open_r"]
    /\ content' = [content EXCEPT ![p] = <<>>]
    /\ printed' = [printed EXCEPT ![p] = <<>>]
    /\ log' = [log EXCEPT ![p] = <<>>]
    /\ prev' = [prev EXCEPT ![p] = <<>>]
    /\ readval' = [readval EXCEPT ![p] = <<>>]
    /\ orig' = file
    /\ UNCHANGED <<procs, script, open, file, overlap>>

Next == Run(1) \/ Rerun(1)

Spec == Init /\ [][Next]_vars

----------------------------------------------------------------------------
(* Executions in which file operations may fail *)

InitIO ==
    /\ script \in [{1} -> Scripts]
    /\ file \in Docs(Frags(script[1]), MaxIOFrags)
    /\ Start({1})

\* an error that is caught and passed over: the script goes on to its message
FailCaught(p) ==
    /\ pc[p] \in {"open_r", "read", "open_w", "write", "close_w"}
    /\ pc' = [pc EXCEPT ![p] = "print"]
    /\ open' = [open EXCEPT ![p] = {}]
    /\ file' = file
    /\ Record(p, "error")
    /\ UNCHANGED <<procs, script, content, printed, run, prev, readval, orig>>

\* The statement p is at raises OSError.  Nothing catches it: the with block
\* closes f on the way out and the interpreter exits with a traceback.  A
\* failed write or flush leaves some beginning of `content` in the file.
Fail(p) ==
    /\ pc[p] \in {"open_r", "read", "open_w", "write", "close_w"}
    /\ pc' = [pc EXCEPT ![p] = "failed"]
    /\ open' = [open EXCEPT ![p] = {}]
    /\ IF pc[p] \in {"write", "close_w"}
       THEN file' \in Prefixes(content[p])
       ELSE file' = file
    /\ Record(p, "error")
    /\ UNCHANGED <<procs, script, content, printed, run, prev, readval, orig>>

NextIO == Run(1) \/ Fail(1)

SpecIO == InitIO /\ [][NextIO]_vars

----------------------------------------------------------------------------
(* Two executions on the same path at the same time *)

InitConc ==
    /\ script \in [{1, 2} -> Scripts]
    /\ file \in Docs(FragsBoth, MaxConcFrags)
    /\ Start({1, 2})

NextConc == \E p \in {1, 2} : Run(p)

SpecConc == InitConc /\ [][NextConc]_vars

----------------------------------------------------------------------------
(* Vocabulary of the properties *)

\* pattern pat matches somewhere in s
HasMatch(pat, s) == \E i \in 1..Len(s) : MatchFrom(pat, 1, s, i).ok

\* s holds no match of any pattern of script sc
Clean(sc, s) == \A k \in 1..3 : ~HasMatch(Pattern(Rules(sc)[k]), s)

\* the number of tokens of s that are in T
Count(s, T) == Cardinality({ i \in 1..Len(s) : s[i] \in T })

\* t occurs in s as a block of adjacent tokens
Contains(s, t) == \E k \in 0..(Len(s) - Len(t)) : SubSeq(s, k + 1, k + Len(t)) = t

\* the statements of script sc in program order
Statements(sc) ==
    <<"open_r", "read", "close_r">> \o Rules(sc) \o <<"open_w", "write", "close_w", "print">>

\* p runs script sc and has just executed its k-th re.sub
After(p, sc, k) ==
    /\ script[p] = sc
    /\ pc[p] = <<"rule2", "rule3", "open_w">>[k]

----------------------------------------------------------------------------
(* C1: rule 1 of fix_comparison_tests *)

\* C1 (as claimed): after the cacheMisses pass every run of adjacent
\* `cacheMisses: <digits>,` lines has become one line, so no cacheMisses line
\* is directly followed by another one, and as many cacheMisses keys are gone
\* as there were lines directly following a cacheMisses line.
C1_RunsCollapse ==
    \A p \in procs :
        After(p, "comparison", 1) =>
            /\ ~HasMatch(CacheMissesPattern, content[p])
            /\ Count(content[p], {"cacheMisses: "}) =
                   Count(prev[p], {"cacheMisses: "})
                   - Cardinality({ i \in 1..Len(prev[p]) :
                                     MatchFrom(CacheMissesPattern, 1, prev[p], i).ok })

----------------------------------------------------------------------------
(* C7: rule 2 of fix_comparison_tests *)

\* C7 (as claimed): after the unitBreakdown pass every `unitBreakdown: {...}`
\* entry that was directly followed by another one stands alone: no pair of
\* adjacent entries is left, and one entry is gone for every such pair.
C7_PairsCollapse ==
    \A p \in procs :
        After(p, "comparison", 2) =>
            /\ ~HasMatch(UnitBreakdownPattern, content[p])
            /\ Count(content[p], {"unitBreakdown: "}) =
                   Count(prev[p], {"unitBreakdown: "})
                   - Cardinality({ i \in 1..Len(prev[p]) :
                                     MatchFrom(UnitBreakdownPattern, 1, prev[p], i).ok })

----------------------------------------------------------------------------
(* C2: rule 3 of fix_comparison_tests *)

\* a comma of s is followed by a closing brace across white space only
CommaBeforeBrace(s) ==
    \E i \in 1..Len(s), j \in 1..Len(s) :
        /\ i < j
        /\ s[i] = ","
        /\ s[j] = "}"
        /\ \A k \in (i + 1)..(j - 1) : s[k] \in Space

\* a comma of s stands between two closing braces, white space after it only
CommaBetweenBraces(s) ==
    \E i \in 2..Len(s), j \in 1..Len(s) :
        /\ i < j
        /\ s[i - 1] = "}"
        /\ s[i] = ","
        /\ s[j] = "}"
        /\ \A k \in (i + 1)..(j - 1) : s[k] \in Space

\* the commas of s that do not directly follow a closing brace
LooseCommas(s) ==
    Cardinality({ i \in 1..Len(s) : s[i] = "," /\ (i = 1 \/ s[i - 1] # "}") })

NotLayout(t) == t \notin Space \cup {","}

----------------------------------------------------------------------------
(* C3: the const rule of fix_cache_stats *)

\* s[i] starts `const <name>: CacheStats = {`, the name n tokens long
DeclHeader(s, i, n) ==
    /\ n >= 1
    /\ i + n + 3 <= Len(s)
    /\ s[i] = "const "
    /\ \A k \in 1..n : s[i + k] \in Word
    /\ s[i + n + 1] = ": CacheStats "
    /\ s[i + n + 2] = "= "
    /\ s[i + n + 3] = "{"

\* s[i..e+1] is `const <name>: CacheStats = { <fields> };`, s[e] its closing
\* brace, the fields any tokens but those of `stop`
Decl(s, i, n, e, stop) ==
    /\ DeclHeader(s, i, n)
    /\ e > i + n + 3
    /\ e < Len(s)
    /\ s[e] = "}"
    /\ s[e + 1] = ";"
    /\ \A k \in (i + n + 4)..(e - 1) : s[k] \notin stop

\* `const <name>: CacheStats = <canonical literal>;`
CanonDecl(name) ==
    <<"const ">> \o name \o <<": CacheStats ", "= ">> \o complete_cache_stats \o <<";">>

\* s ends inside the braces of a `<word>: CacheStats = {` initializer
InsideInitializer(s) ==
    \E k \in 4..Len(s) :
        /\ s[k] = "{"
        /\ s[k - 1] = "= "
        /\ s[k - 2] = ": CacheStats "
        /\ s[k - 3] \in Word
        /\ \A m \in (k + 1)..Len(s) : s[m] # "}"

----------------------------------------------------------------------------
(* C4: the frequency rule of fix_cache_stats *)

\* white space that stays on the line
Blank == Space \ {NL}

\* a whole line that assigns frequency a number: indentation, the assignment,
\* the comma, the line break
FrequencyLinePattern ==
    << Star(Blank), Lit("frequency: "), Plus(NumChar), Lit(","), Star(Blank), Lit(NL) >>

IsFrequencyLine(line) ==
    LET m == MatchFrom(FrequencyLinePattern, 1, line, 1)
    IN  m.ok /\ m.ends[Len(m.ends)] = Len(line)

\* the length of the first line of s, its line break included
FirstLineLen(s) ==
    IF \E i \in 1..Len(s) : s[i] = NL
    THEN CHOOSE i \in 1..Len(s) : s[i] = NL /\ \A k \in 1..(i - 1) : s[k] # NL
    ELSE Len(s)

RECURSIVE DropFrequencyLines(_)
\* s without its frequency lines
DropFrequencyLines(s) ==
    IF s = <<>> THEN <<>>
    ELSE LET n    == FirstLineLen(s)
             line == SubSeq(s, 1, n)
             rest == DropFrequencyLines(SubSeq(s, n + 1, Len(s)))
         IN  IF IsFrequencyLine(line) THEN rest ELSE line \o rest

\* every `frequency: ` of s is the first thing on its line but indentation
FrequencyStartsLine(s) ==
    \A i \in 1..Len(s) :
        s[i] = "frequency: " =>
            \E b \in 0..(i - 1) :
                /\ b = 0 \/ s[b] = NL
                /\ \A k \in (b + 1)..(i - 1) : s[k] \in Blank

\* C4 (as claimed): the frequency pass deletes each line that assigns
\* frequency a number, indentation and line break included, and nothing
\* else: the output is the input without exactly those lines.
C4_LinesRemoved ==
    \A p \in procs :
        (After(p, "cache_stats", 3) /\ FrequencyStartsLine(prev[p])) =>
            content[p] = DropFrequencyLines(prev[p])

----------------------------------------------------------------------------
(* C5: idempotence *)

\* C5 (as claimed): executed on its own output, either script computes the
\* text it has read: patch(patch(x)) = patch(x) for every input x.
C5_Idempotent ==
    \A p \in procs :
        (run[p] = 2 /\ pc[p] = "open_w") => content[p] = readval[p]

----------------------------------------------------------------------------
(* C6: no-op on clean input *)

\* C6: when the text read holds no match of any of the script's three
\* patterns, every re.sub returns it as it is, and the text written back is
\* the text read; this on the first execution and on a re-execution.
C6_CleanUnchanged ==
    \A p \in procs :
        /\ (pc[p] \in {"rule2", "rule3", "open_w", "write"}
            /\ Clean(script[p], readval[p]))
           => content[p] = readval[p]
        /\ (pc[p] \in {"close_w", "print", "done"}
            /\ Clean(script[p], readval[p]))
           => file = readval[p]

\* a clean file of several lines has been written back as it was
C6_Witness ==
    \E p \in procs :
        /\ pc[p] = "done"
        /\ script[p] = "comparison"
        /\ readval[p] = UBa \o CM1
        /\ Clean(script[p], readval[p])
        /\ file = readval[p]

----------------------------------------------------------------------------
(* C8: the order of the file operations *)

\* C8: a process never holds the read handle and the write handle together;
\* its statements run in program order (read handle opened, read, closed,
\* the three rules in their order, write handle opened, one write, closed,
\* the message); what is written is the third rule's output on the second's
\* on the first's on the text read; the message comes after the write
\* handle is closed, and once.
C8_Ordering ==
    \A p \in procs :
        LET did == SelectSeq(log[p], LAMBDA e : e # "error")
        IN  /\ Cardinality(open[p]) <= 1
            /\ ("r" \in open[p]) <=> (pc[p] \in {"read", "close_r"})
            /\ ("w" \in open[p]) <=> (pc[p] \in {"write", "close_w"})
            /\ Len(did) <= Len(Statements(script[p]))
            /\ did = SubSeq(Statements(script[p]), 1, Len(did))
            /\ pc[p] \in {"open_w", "write"} =>
                   content[p] = Patch(script[p], readval[p])
            /\ pc[p] \in {"close_w", "print", "done"} =>
                   /\ file = Patch(script[p], orig)
                   /\ Count(log[p], {"write"}) = 1
            /\ printed[p] # <<>> =>
                   /\ printed[p] = <<Message(script[p])>>
                   /\ pc[p] = "done"
                   /\ open[p] = {}
                   /\ log[p] = Statements(script[p])

\* a run that rewrote its file has finished and printed its message
C8_Witness ==
    \E p \in procs :
        /\ pc[p] = "done"
        /\ printed[p] = <<Message(script[p])>>
        /\ file # orig
        /\ file = Patch(script[p], orig)

----------------------------------------------------------------------------
(* C9: errors are not caught *)

\* C9: the statement that fails is the last one the process executes; the
\* message is not printed and no handle stays open.  When the failure is at
\* opening or reading the file, no write handle was ever opened and the
\* file is as it was.
C9_ErrorsPropagate ==
    \A p \in procs :
        /\ ("error" \in Range(log[p])) => pc[p] = "failed"
        /\ pc[p] = "failed" =>
               /\ log[p] # <<>>
               /\ log[p][Len(log[p])] = "error"
               /\ Count(log[p], {"error"}) = 1
               /\ "print" \notin Range(log[p])
               /\ printed[p] = <<>>
               /\ open[p] = {}
               /\ Len(log[p]) <= 3 =>
                      /\ "open_w" \notin Range(log[p])
                      /\ file = orig

\* f.read() has failed: the file is untouched and nothing is printed
C9_Witness ==
    \E p \in procs :
        /\ pc[p] = "failed"
        /\ log[p] = <<"open_r", "error">>
        /\ orig # <<>>
        /\ file = orig
        /\ printed[p] = <<>>

----------------------------------------------------------------------------
(* C10: two executions on the same path *)

AllDone == \A p \in procs : pc[p] = "done"

\* the file after the two scripts have run one after the other, p first
Serial(p, q) == Patch(script[q], Patch(script[p], orig))

\* C10: when the two executions do not overlap, the file ends with the
\* rewrites of both, in the order they ran.  (Interleaved, the rewrites of
\* one can be lost: C10_LostUpdate.)
C10_SerialAppliesBoth ==
    (procs = {1, 2} /\ AllDone /\ ~overlap) =>
        file \in { Serial(1, 2), Serial(2, 1) }

\* both executions are done and the file holds the first script's rewrite of
\* the original text only: what the second one wrote is lost, and no serial
\* order gives this file
C10_LostUpdate ==
    /\ procs = {1, 2}
    /\ AllDone
    /\ overlap
    /\ file = Patch(script[1], orig)
    /\ file # Patch(script[2], file)
    /\ file \notin { Serial(1, 2), Serial(2, 1) }

====
